---- MODULE Spec2Model ----
(***************************************************************************)
(* Model of the CodeCollab review backend (FastAPI routers over a          *)
(* Supabase store): submissions, review comments, comment votes and        *)
(* mention notifications.  Each store table is a sequence of rows in       *)
(* insertion order; each route handler is one action, except where a       *)
(* claim is about interleavings, where the handler is also given as one    *)
(* step per store call.                                                    *)
(***************************************************************************)
EXTENDS Integers, Sequences, FiniteSets, TLC

(* ---------------- bounds of the model ---------------- *)

MaxSubmissions == 1

MaxComments == 2

MaxVoteRows == 2

MaxNotifications == 2

MaxInflight == 2

\* submissions ever created in the specification of the submission lifecycle
MaxLifecycleSubmissions == 2

\* characters of filler before and after the word a long searched text holds
MaxPadding == 60

(* ---------------- program constants ---------------- *)

HTTP_200_OK == 200

HTTP_201_CREATED == 201

HTTP_204_NO_CONTENT == 204

HTTP_400_BAD_REQUEST == 400

HTTP_403_FORBIDDEN == 403

HTTP_404_NOT_FOUND == 404

HTTP_500_INTERNAL_SERVER_ERROR == 500

\* rows a search returns at most: .limit(25)
SEARCH_LIMIT == 25

\* characters a snippet keeps before and after the match: idx - 50, idx + len(q) + 50
SNIPPET_RADIUS == 50

None == "None"

(* ---------------- inputs ---------------- *)

\* Authenticated callers: the verified (sub, email) pair of JWTPayload.
Callers ==
    { [sub |-> "u1", email |-> "a@x.com"],
      [sub |-> "u2", email |-> "b@x.com"] }

\* user.email or ""
EmailOr(user) == IF user.email = None THEN "" ELSE user.email

VARIABLES
    submissions,      \* table "submissions"
    comments,         \* table "comments"
    comment_votes,    \* table "comment_votes"
    notifications,    \* table "notifications"
    nextSubmissionId, \* id the store gives the next submission row
    nextCommentId,    \* id the store gives the next comment row
    inflight,         \* upsert_vote requests between their select and their write
    last              \* the last completed request and its response

vars ==
    << submissions, comments, comment_votes, notifications,
       nextSubmissionId, nextCommentId, inflight, last >>

Requests == 1..MaxInflight

Idle == [op |-> "idle"]

SubmissionIds == 1..MaxSubmissions

CommentIds == 1..MaxComments

(* ---------------- store primitives ---------------- *)

\* a chain .eq(col, val)... is a record column |-> value; the rows it keeps
Matches(row, filter) == \A col \in DOMAIN filter : row[col] = filter[col]

\* select(...).eq(...): the rows of a table satisfying the filter, in order
Select(table, filter) == SelectSeq(table, LAMBDA r : Matches(r, filter))

\* delete().eq(...): the table without the rows satisfying the filter
Delete(table, filter) == SelectSeq(table, LAMBDA r : ~Matches(r, filter))

\* update(patch).eq(...): the table with the columns of `patch` overwritten in
\* the rows satisfying the filter
Update(table, filter, patch) ==
    [i \in 1..Len(table) |->
        IF Matches(table[i], filter) THEN patch @@ table[i] ELSE table[i]]

(* ---------------- comment_votes.py ---------------- *)

\* the vote of the first row of `votes` cast by user_id, 0 when there is none
FirstVoteOf(votes, user_id) ==
    LET mine == SelectSeq(votes, LAMBDA v : v.user_id = user_id)
    IN  IF mine = << >> THEN 0 ELSE mine[1].vote

_tally(votes, user_id) ==
    LET upvotes   == Len(SelectSeq(votes, LAMBDA v : v.vote = 1))
        downvotes == Len(SelectSeq(votes, LAMBDA v : v.vote = -1))
    IN  [ upvotes   |-> upvotes,
          downvotes |-> downvotes,
          net       |-> upvotes - downvotes,
          user_vote |-> FirstVoteOf(votes, user_id) ]

\* the rows of comment_votes of one (comment, voter) pair
VoteRows(comment_id, user_id) ==
    Select(comment_votes, [comment_id |-> comment_id, user_id |-> user_id])

\* a check that lets every non-zero value through
ValidVoteAnyInt(vote) == TRUE

\* body.vote not in (1, -1) does not hold
ValidVote(vote) == vote \in {1, -1}

\* a delete that filters on the comment only
VotesAfterDeleteOfComment(comment_id, user_id) ==
    Delete(comment_votes, [comment_id |-> comment_id])

\* the table after delete().eq("comment_id", ...).eq("user_id", ...)
VotesAfterDelete(comment_id, user_id) ==
    Delete(comment_votes, [comment_id |-> comment_id, user_id |-> user_id])

\* a write whose update forgets the voter and changes every vote of the comment
VotesAfterWriteByComment(comment_id, user_id, vote, existing) ==
    IF existing
    THEN Update(comment_votes, [comment_id |-> comment_id], [vote |-> vote])
    ELSE Append(comment_votes,
                [comment_id |-> comment_id, user_id |-> user_id, vote |-> vote])

\* a write that always inserts
VotesAfterInsertOnly(comment_id, user_id, vote, existing) ==
    Append(comment_votes, [comment_id |-> comment_id, user_id |-> user_id, vote |-> vote])

\* the table after the write of upsert_vote: an update of the pair's rows when
\* the select found some, an insert of a new row otherwise
VotesAfterWrite(comment_id, user_id, vote, existing) ==
    IF existing
    THEN Update(comment_votes, [comment_id |-> comment_id, user_id |-> user_id],
                [vote |-> vote])
    ELSE Append(comment_votes,
                [comment_id |-> comment_id, user_id |-> user_id, vote |-> vote])

\* row.data[0] if row.data else {"vote": body.vote}
VoteResult(comment_id, user_id, vote, after) ==
    LET rows == SelectSeq(after, LAMBDA v : v.comment_id = comment_id /\ v.user_id = user_id)
    IN  IF rows = << >> THEN [vote |-> vote] ELSE rows[1]

\* POST /comments/{comment_id}/vote, the whole handler in one step
upsert_vote(comment_id, vote, user) ==
    /\ UNCHANGED << submissions, comments, notifications,
                    nextSubmissionId, nextCommentId, inflight >>
    /\ IF vote = 0
       THEN /\ comment_votes' = VotesAfterDelete(comment_id, user.sub)
            /\ last' = [ op |-> "upsert_vote", comment_id |-> comment_id,
                         user |-> user.sub, vote |-> vote,
                         status |-> HTTP_200_OK, result |-> [vote |-> 0, net |-> 0] ]
       ELSE IF ~ValidVote(vote)
       THEN /\ comment_votes' = comment_votes
            /\ last' = [ op |-> "upsert_vote", comment_id |-> comment_id,
                         user |-> user.sub, vote |-> vote,
                         status |-> HTTP_400_BAD_REQUEST, result |-> None ]
       ELSE LET existing == VoteRows(comment_id, user.sub) # << >>
                after    == VotesAfterWrite(comment_id, user.sub, vote, existing)
            IN  /\ Len(after) <= MaxVoteRows
                /\ comment_votes' = after
                /\ last' = [ op |-> "upsert_vote", comment_id |-> comment_id,
                             user |-> user.sub, vote |-> vote,
                             status |-> HTTP_200_OK,
                             result |-> VoteResult(comment_id, user.sub, vote, after) ]

\* upsert_vote up to and including its select: the request remembers whether
\* the pair had a row
upsert_vote_select(req, comment_id, vote, user) ==
    /\ inflight[req] = Idle
    /\ vote # 0
    /\ ValidVote(vote)
    /\ inflight' = [inflight EXCEPT ![req] =
                       [ op |-> "upsert_vote", comment_id |-> comment_id,
                         user |-> user.sub, vote |-> vote,
                         existing |-> VoteRows(comment_id, user.sub) # << >> ]]
    /\ UNCHANGED << submissions, comments, comment_votes, notifications,
                    nextSubmissionId, nextCommentId, last >>

\* upsert_vote from its update or insert to its return
upsert_vote_write(req) ==
    /\ inflight[req] # Idle
    /\ LET r     == inflight[req]
           after == VotesAfterWrite(r.comment_id, r.user, r.vote, r.existing)
       IN  /\ Len(after) <= MaxVoteRows
           /\ comment_votes' = after
           /\ last' = [ op |-> "upsert_vote", comment_id |-> r.comment_id,
                        user |-> r.user, vote |-> r.vote,
                        status |-> HTTP_200_OK,
                        result |-> VoteResult(r.comment_id, r.user, r.vote, after) ]
    /\ inflight' = [inflight EXCEPT ![req] = Idle]
    /\ UNCHANGED << submissions, comments, notifications,
                    nextSubmissionId, nextCommentId >>

\* upsert_vote from its update or insert to its return, over a store that
\* keeps (comment_id, user_id) unique: an insert for a pair that has a row by
\* now is rejected, the exception leaves the handler and the request fails
upsert_vote_write_unique(req) ==
    /\ inflight[req] # Idle
    /\ LET r        == inflight[req]
           rejected == ~r.existing /\ VoteRows(r.comment_id, r.user) # << >>
           after    == VotesAfterWrite(r.comment_id, r.user, r.vote, r.existing)
           args     == [ op |-> "upsert_vote", comment_id |-> r.comment_id,
                         user |-> r.user, vote |-> r.vote ]
       IN  IF rejected
           THEN /\ comment_votes' = comment_votes
                /\ last' = args @@ [ status |-> HTTP_500_INTERNAL_SERVER_ERROR,
                                     result |-> None ]
           ELSE /\ Len(after) <= MaxVoteRows
                /\ comment_votes' = after
                /\ last' = args @@ [ status |-> HTTP_200_OK,
                                     result |-> VoteResult(r.comment_id, r.user,
                                                           r.vote, after) ]
    /\ inflight' = [inflight EXCEPT ![req] = Idle]
    /\ UNCHANGED << submissions, comments, notifications,
                    nextSubmissionId, nextCommentId >>

\* DELETE /comments/{comment_id}/vote
remove_vote(comment_id, user) ==
    /\ comment_votes' = VotesAfterDelete(comment_id, user.sub)
    /\ last' = [ op |-> "remove_vote", comment_id |-> comment_id, user |-> user.sub,
                 status |-> HTTP_200_OK, result |-> None ]
    /\ UNCHANGED << submissions, comments, notifications,
                    nextSubmissionId, nextCommentId, inflight >>

\* GET /comments/{comment_id}/votes: the response on the current store
get_comment_votes(comment_id, user) ==
    _tally(Select(comment_votes, [comment_id |-> comment_id]), user.sub)

(* ---------------- submissions.py: mention fan-out ---------------- *)

\* What re.findall(r"@([\w.+-]+@[\w.+-]+\.[a-zA-Z]{2,})", ...) captures in one
\* whitespace-delimited token of a comment body: the address after the leading
\* "@" when the token is "@" followed by an address, nothing otherwise.
re_match(token) ==
    CASE token = "@a@x.com" -> << "a@x.com" >>
      [] token = "@b@x.com" -> << "b@x.com" >>
      [] token = "@c@x.com" -> << "c@x.com" >>
      [] OTHER              -> << >>

RECURSIVE re_findall(_)
\* the captures of the whole body, left to right, repeats included
re_findall(comment_body) ==
    IF comment_body = << >>
    THEN << >>
    ELSE re_match(Head(comment_body)) \o re_findall(Tail(comment_body))

\* emails = set(re.findall(...))
MentionedEmails(comment_body) ==
    LET found == re_findall(comment_body)
    IN  { found[i] : i \in 1..Len(found) }

\* the orders in which a for loop can visit a set
IterationOrders(S) ==
    { f \in [1..Cardinality(S) -> S] :
          \A i, j \in 1..Cardinality(S) : i # j => f[i] # f[j] }

\* a loop over the list re.findall returns, repeats included
MentionOrdersOfList(comment_body) == { re_findall(comment_body) }

\* the sequences of addresses `for email in emails` can visit
MentionOrders(comment_body) == IterationOrders(MentionedEmails(comment_body))

\* a store call of the fan-out that raises: the call made for the k-th visited
\* address, or no call at all
NoFault == [at |-> 0, call |-> "none"]

Faults(n) ==
    {NoFault} \cup
    { [at |-> k, call |-> c] : k \in 1..n, c \in {"comments", "submissions", "insert"} }

\* the mention row _notify_mentions inserts
MentionRow(target_user_id, from_email) ==
    [ user_id |-> target_user_id,
      message |-> << from_email, " mentioned you in a review comment" >>,
      type    |-> "mention",
      is_read |-> FALSE ]

\* a loop that passes over no address
IsSelfMentionNever(email, from_email) == FALSE

\* an address the loop passes over: email == from_email
IsSelfMention(email, from_email) == email = from_email

\* a lookup that asks the comments table only
LookupInCommentsOnly(email, commentRows, submissionRows) ==
    SelectSeq(commentRows, LAMBDA r : r.user_email = email)

\* the rows the identity lookup ends with: those of the comments table carrying
\* the address, and when there are none those of the submissions table
LookupByEmail(email, commentRows, submissionRows) ==
    LET byCmt == SelectSeq(commentRows, LAMBDA r : r.user_email = email)
        bySub == SelectSeq(submissionRows, LAMBDA r : r.user_email = email)
    IN  IF byCmt # << >> THEN byCmt ELSE bySub

RECURSIVE NotifyFrom(_, _, _, _, _, _, _)
\* The loop of _notify_mentions from the i-th visited address on, run on the
\* given comments and submissions tables: the notifications table it leaves and
\* whether a store call raised (the exception leaves the loop and is swallowed
\* by the enclosing try).
NotifyFrom(order, i, from_email, fault, commentRows, submissionRows, table) ==
    IF i > Len(order)
    THEN [table |-> table, raised |-> FALSE]
    ELSE
      LET email   == order[i]
          byCmt   == SelectSeq(commentRows, LAMBDA r : r.user_email = email)
          result  == LookupByEmail(email, commentRows, submissionRows)
          raises(c) == fault = [at |-> i, call |-> c]
      IN  IF IsSelfMention(email, from_email)
          THEN NotifyFrom(order, i + 1, from_email, fault, commentRows, submissionRows, table)
          ELSE IF raises("comments")
          THEN [table |-> table, raised |-> TRUE]
          ELSE IF byCmt = << >> /\ raises("submissions")
          THEN [table |-> table, raised |-> TRUE]
          ELSE IF result = << >>
          THEN NotifyFrom(order, i + 1, from_email, fault, commentRows, submissionRows, table)
          ELSE IF raises("insert")
          THEN [table |-> table, raised |-> TRUE]
          ELSE NotifyFrom(order, i + 1, from_email, fault, commentRows, submissionRows,
                          Append(table, MentionRow(result[1].user_id, from_email)))

\* _notify_mentions(comment_body, _, from_email): `order` is the order in which
\* the loop visits set(re.findall(...)), `fault` the store call that raises
\* a fan-out that undoes its notifications when a store call raises
_notify_mentions_all_or_nothing(comment_body, from_email, order, fault, commentRows, submissionRows) ==
    LET done == NotifyFrom(order, 1, from_email, fault, commentRows, submissionRows,
                           notifications)
    IN  IF done.raised THEN [table |-> notifications, raised |-> TRUE] ELSE done

_notify_mentions(comment_body, from_email, order, fault, commentRows, submissionRows) ==
    NotifyFrom(order, 1, from_email, fault, commentRows, submissionRows, notifications)

(* ---------------- submissions.py: lookups ---------------- *)

\* the rows _get_submission_or_404 selects
SubmissionRows(submission_id) ==
    Select(submissions, [id |-> submission_id])

\* _get_submission_or_404 raises 404 when the select raises or finds no row
SubmissionMissing(submission_id, lookupFails) ==
    lookupFails \/ SubmissionRows(submission_id) = << >>

\* an owner check that lets every caller through
IsOwnerAnyone(submission, user) == TRUE

\* _require_owner passes
IsOwner(submission, user) == submission.user_id = user.sub

(* ---------------- submissions.py: comments of a submission ---------------- *)

\* a response that surfaces an exception of the fan-out
AddResponseSurfacing(args, row, fanout) ==
    IF fanout.raised
    THEN args @@ [ status |-> HTTP_500_INTERNAL_SERVER_ERROR, result |-> None,
                   raised |-> TRUE ]
    ELSE args @@ [status |-> HTTP_201_CREATED, result |-> row, raised |-> FALSE]

\* comment = row.data[0]; _notify_mentions(...); return comment
AddResponse(args, row, fanout) ==
    args @@ [status |-> HTTP_201_CREATED, result |-> row, raised |-> fanout.raised]

\* an add that runs the fan-out before it looks at the row the insert returned
add_submission_comment_notify_first(submission_id, body, user, outcome, order, fault) ==
    LET row == [ id            |-> nextCommentId,
                 submission_id |-> submission_id,
                 user_id       |-> user.sub,
                 user_email    |-> EmailOr(user),
                 body          |-> body.body,
                 line_number   |-> IF body.line_number # None THEN body.line_number ELSE 0 ]
        args == [ op |-> "add_submission_comment", submission_id |-> submission_id,
                  user |-> user.sub ]
    IN
    /\ UNCHANGED << submissions, comment_votes, nextSubmissionId, inflight >>
    /\ IF SubmissionMissing(submission_id, outcome = "lookup_error")
       THEN /\ UNCHANGED << comments, notifications, nextCommentId >>
            /\ last' = args @@ [status |-> HTTP_404_NOT_FOUND, result |-> None]
       ELSE IF outcome = "insert_error"
       THEN /\ UNCHANGED << comments, notifications, nextCommentId >>
            /\ last' = args @@ [status |-> HTTP_500_INTERNAL_SERVER_ERROR, result |-> None]
       ELSE IF outcome = "insert_empty"
       THEN LET fanout == _notify_mentions(body.body, EmailOr(user), order, fault,
                                           comments, submissions)
            IN  /\ UNCHANGED << comments, nextCommentId >>
                /\ Len(fanout.table) <= MaxNotifications
                /\ notifications' = fanout.table
                /\ last' = args @@ [ status |-> HTTP_500_INTERNAL_SERVER_ERROR,
                                     result |-> None ]
       ELSE LET fanout == _notify_mentions(body.body, EmailOr(user), order, fault,
                                           Append(comments, row), submissions)
            IN  /\ nextCommentId <= MaxComments
                /\ comments' = Append(comments, row)
                /\ nextCommentId' = nextCommentId + 1
                /\ Len(fanout.table) <= MaxNotifications
                /\ notifications' = fanout.table
                /\ last' = AddResponse(args @@ [mentions |-> order, fault |-> fault],
                                       row, fanout)

\* POST /submissions/{submission_id}/comments.  `outcome` is what the store does
\* with the requests: "ok", "lookup_error" (the submission select raises),
\* "insert_error" (the comment insert raises), "insert_empty" (it returns no row).
add_submission_comment(submission_id, body, user, outcome, order, fault) ==
    LET row == [ id            |-> nextCommentId,
                 submission_id |-> submission_id,
                 user_id       |-> user.sub,
                 user_email    |-> EmailOr(user),
                 body          |-> body.body,
                 line_number   |-> IF body.line_number # None THEN body.line_number ELSE 0 ]
        args == [ op |-> "add_submission_comment", submission_id |-> submission_id,
                  user |-> user.sub ]
    IN
    /\ UNCHANGED << submissions, comment_votes, nextSubmissionId, inflight >>
    /\ IF SubmissionMissing(submission_id, outcome = "lookup_error")
       THEN /\ UNCHANGED << comments, notifications, nextCommentId >>
            /\ last' = args @@ [status |-> HTTP_404_NOT_FOUND, result |-> None]
       ELSE IF outcome \in {"insert_error", "insert_empty"}
       THEN /\ UNCHANGED << comments, notifications, nextCommentId >>
            /\ last' = args @@ [status |-> HTTP_500_INTERNAL_SERVER_ERROR, result |-> None]
       ELSE LET fanout == _notify_mentions(body.body, EmailOr(user), order, fault,
                                           Append(comments, row), submissions)
            IN  /\ nextCommentId <= MaxComments
                /\ comments' = Append(comments, row)
                /\ nextCommentId' = nextCommentId + 1
                /\ Len(fanout.table) <= MaxNotifications
                /\ notifications' = fanout.table
                /\ last' = AddResponse(args @@ [mentions |-> order, fault |-> fault],
                                       row, fanout)

\* add_submission_comment up to and including _get_submission_or_404: the
\* request goes on to its insert when the submission was found
add_submission_comment_lookup(req, submission_id, body, user, lookupFails) ==
    /\ inflight[req] = Idle
    /\ UNCHANGED << submissions, comments, comment_votes, notifications,
                    nextSubmissionId, nextCommentId >>
    /\ IF SubmissionMissing(submission_id, lookupFails)
       THEN /\ inflight' = inflight
            /\ last' = [ op |-> "add_submission_comment", submission_id |-> submission_id,
                         user |-> user.sub, status |-> HTTP_404_NOT_FOUND,
                         result |-> None ]
       ELSE /\ inflight' = [inflight EXCEPT ![req] =
                               [ op |-> "add_submission_comment",
                                 submission_id |-> submission_id,
                                 body |-> body, user |-> user ]]
            /\ last' = last

\* add_submission_comment from its insert to its return
add_submission_comment_insert(req, outcome, order, fault) ==
    /\ inflight[req] # Idle
    /\ inflight[req].op = "add_submission_comment"
    /\ LET r    == inflight[req]
           row  == [ id            |-> nextCommentId,
                     submission_id |-> r.submission_id,
                     user_id       |-> r.user.sub,
                     user_email    |-> EmailOr(r.user),
                     body          |-> r.body.body,
                     line_number   |-> IF r.body.line_number # None
                                       THEN r.body.line_number ELSE 0 ]
           args == [ op |-> "add_submission_comment", submission_id |-> r.submission_id,
                     user |-> r.user.sub ]
       IN  IF outcome \in {"insert_error", "insert_empty"}
           THEN /\ UNCHANGED << comments, notifications, nextCommentId >>
                /\ last' = args @@ [ status |-> HTTP_500_INTERNAL_SERVER_ERROR,
                                     result |-> None ]
           ELSE LET fanout == _notify_mentions(r.body.body, EmailOr(r.user), order, fault,
                                               Append(comments, row), submissions)
                IN  /\ nextCommentId <= MaxComments
                    /\ comments' = Append(comments, row)
                    /\ nextCommentId' = nextCommentId + 1
                    /\ Len(fanout.table) <= MaxNotifications
                    /\ notifications' = fanout.table
                    /\ last' = AddResponse(args @@ [mentions |-> order, fault |-> fault],
                                           row, fanout)
    /\ inflight' = [inflight EXCEPT ![req] = Idle]
    /\ UNCHANGED << submissions, comment_votes, nextSubmissionId >>

\* the rows the comment routes of submissions.py select: by id and submission
ScopedCommentRows(submission_id, comment_id) ==
    Select(comments, [id |-> comment_id, submission_id |-> submission_id])

\* PUT /submissions/{submission_id}/comments/{comment_id}
edit_submission_comment(submission_id, comment_id, body, user, lookupFails) ==
    LET rows == ScopedCommentRows(submission_id, comment_id)
        args == [ op |-> "edit_submission_comment", submission_id |-> submission_id,
                  comment_id |-> comment_id, user |-> user.sub ]
    IN
    /\ UNCHANGED << submissions, comment_votes, notifications,
                    nextSubmissionId, nextCommentId, inflight >>
    /\ IF lookupFails \/ rows = << >>
       THEN /\ comments' = comments
            /\ last' = args @@ [status |-> HTTP_404_NOT_FOUND, result |-> None]
       ELSE IF rows[1].user_id # user.sub
       THEN /\ comments' = comments
            /\ last' = args @@ [status |-> HTTP_403_FORBIDDEN, result |-> None]
       ELSE /\ comments' = Update(comments, [id |-> comment_id],
                                  [body |-> body.body])
            /\ last' = args @@ [ status |-> HTTP_200_OK,
                                 result |-> [rows[1] EXCEPT !.body = body.body] ]

\* DELETE /submissions/{submission_id}/comments/{comment_id}
delete_submission_comment(submission_id, comment_id, user, lookupFails) ==
    LET rows == ScopedCommentRows(submission_id, comment_id)
        args == [ op |-> "delete_submission_comment", submission_id |-> submission_id,
                  comment_id |-> comment_id, user |-> user.sub ]
    IN
    /\ UNCHANGED << submissions, comment_votes, notifications,
                    nextSubmissionId, nextCommentId, inflight >>
    /\ IF lookupFails \/ rows = << >>
       THEN /\ comments' = comments
            /\ last' = args @@ [status |-> HTTP_404_NOT_FOUND, result |-> None]
       ELSE IF rows[1].user_id # user.sub
       THEN /\ comments' = comments
            /\ last' = args @@ [status |-> HTTP_403_FORBIDDEN, result |-> None]
       ELSE /\ comments' = Delete(comments, [id |-> comment_id])
            /\ last' = args @@ [status |-> HTTP_200_OK, result |-> None]

\* a batch tally that looks for the caller's vote in the votes of all comments
get_submission_comment_votes_ungrouped(submission_id, user) ==
    LET rows        == Select(comments, [submission_id |-> submission_id])
        comment_ids == { rows[i].id : i \in 1..Len(rows) }
        all_votes   == SelectSeq(comment_votes, LAMBDA v : v.comment_id \in comment_ids)
    IN  [ cid \in comment_ids |->
            LET cv        == SelectSeq(all_votes, LAMBDA v : v.comment_id = cid)
                upvotes   == Len(SelectSeq(cv, LAMBDA v : v.vote = 1))
                downvotes == Len(SelectSeq(cv, LAMBDA v : v.vote = -1))
            IN  [ upvotes   |-> upvotes,
                  downvotes |-> downvotes,
                  net       |-> upvotes - downvotes,
                  user_vote |-> FirstVoteOf(all_votes, user.sub) ] ]

\* GET /submissions/{submission_id}/comment_votes: the response on the current store
get_submission_comment_votes(submission_id, user) ==
    LET rows        == Select(comments, [submission_id |-> submission_id])
        comment_ids == { rows[i].id : i \in 1..Len(rows) }
        all_votes   == SelectSeq(comment_votes, LAMBDA v : v.comment_id \in comment_ids)
    IN  [ cid \in comment_ids |->
            LET cv        == SelectSeq(all_votes, LAMBDA v : v.comment_id = cid)
                upvotes   == Len(SelectSeq(cv, LAMBDA v : v.vote = 1))
                downvotes == Len(SelectSeq(cv, LAMBDA v : v.vote = -1))
            IN  [ upvotes   |-> upvotes,
                  downvotes |-> downvotes,
                  net       |-> upvotes - downvotes,
                  user_vote |-> FirstVoteOf(cv, user.sub) ] ]

(* ---------------- comments.py ---------------- *)

\* the rows _get_comment_or_404 selects
CommentRows(comment_id) == Select(comments, [id |-> comment_id])

\* an author check that lets every caller through
IsAuthorAnyone(comment, user) == TRUE

\* _require_author passes
IsAuthor(comment, user) == comment.user_id = user.sub

\* POST /comments.  `outcome`: "ok", "insert_error", "insert_empty".
create_comment(body, user, outcome) ==
    LET row == [ id            |-> nextCommentId,
                 submission_id |-> body.submission_id,
                 user_id       |-> user.sub,
                 user_email    |-> EmailOr(user),
                 body          |-> body.body,
                 line_number   |-> 0 ]
        args == [ op |-> "create_comment", submission_id |-> body.submission_id,
                  user |-> user.sub ]
    IN
    /\ UNCHANGED << submissions, comment_votes, notifications, nextSubmissionId, inflight >>
    /\ IF outcome \in {"insert_error", "insert_empty"}
       THEN /\ UNCHANGED << comments, nextCommentId >>
            /\ last' = args @@ [status |-> HTTP_500_INTERNAL_SERVER_ERROR, result |-> None]
       ELSE /\ nextCommentId <= MaxComments
            /\ comments' = Append(comments, row)
            /\ nextCommentId' = nextCommentId + 1
            /\ last' = args @@ [status |-> HTTP_201_CREATED, result |-> row]

\* PATCH /comments/{comment_id}
update_comment(comment_id, body, user) ==
    LET rows == CommentRows(comment_id)
        args == [ op |-> "update_comment", comment_id |-> comment_id, user |-> user.sub ]
    IN
    /\ UNCHANGED << submissions, comment_votes, notifications,
                    nextSubmissionId, nextCommentId, inflight >>
    /\ IF rows = << >>
       THEN /\ comments' = comments
            /\ last' = args @@ [status |-> HTTP_404_NOT_FOUND, result |-> None]
       ELSE IF ~IsAuthor(rows[1], user)
       THEN /\ comments' = comments
            /\ last' = args @@ [status |-> HTTP_403_FORBIDDEN, result |-> None]
       ELSE /\ comments' = Update(comments, [id |-> comment_id],
                                  [body |-> body.body])
            /\ last' = args @@ [ status |-> HTTP_200_OK,
                                 result |-> [rows[1] EXCEPT !.body = body.body] ]

\* DELETE /comments/{comment_id}
delete_comment(comment_id, user) ==
    LET rows == CommentRows(comment_id)
        args == [ op |-> "delete_comment", comment_id |-> comment_id, user |-> user.sub ]
    IN
    /\ UNCHANGED << submissions, comment_votes, notifications,
                    nextSubmissionId, nextCommentId, inflight >>
    /\ IF rows = << >>
       THEN /\ comments' = comments
            /\ last' = args @@ [status |-> HTTP_404_NOT_FOUND, result |-> None]
       ELSE IF ~IsAuthor(rows[1], user)
       THEN /\ comments' = comments
            /\ last' = args @@ [status |-> HTTP_403_FORBIDDEN, result |-> None]
       ELSE /\ comments' = Delete(comments, [id |-> comment_id])
            /\ last' = args @@ [status |-> HTTP_204_NO_CONTENT, result |-> None]

(* ---------------- submissions.py: submission lifecycle ---------------- *)

\* a create that replaces the submissions its caller already has
create_submission_replacing(body, user, outcome) ==
    LET row == [ id                  |-> nextSubmissionId,
                 user_id             |-> user.sub,
                 user_email          |-> EmailOr(user),
                 title               |-> body.title,
                 code                |-> body.code,
                 language            |-> body.language,
                 problem_description |-> body.description,
                 status              |-> "open",
                 feedback            |-> None ]
        args == [ op |-> "create_submission", user |-> user.sub ]
    IN
    /\ UNCHANGED << comments, comment_votes, notifications, nextCommentId, inflight >>
    /\ IF outcome \in {"insert_error", "insert_empty"}
       THEN /\ UNCHANGED << submissions, nextSubmissionId >>
            /\ last' = args @@ [status |-> HTTP_500_INTERNAL_SERVER_ERROR, result |-> None]
       ELSE /\ submissions' = Append(Delete(submissions, [user_id |-> user.sub]), row)
            /\ nextSubmissionId' = nextSubmissionId + 1
            /\ last' = args @@ [status |-> HTTP_201_CREATED, result |-> row]

\* POST /submissions.  `outcome`: "ok", "insert_error", "insert_empty".
create_submission(body, user, outcome) ==
    LET row == [ id                  |-> nextSubmissionId,
                 user_id             |-> user.sub,
                 user_email          |-> EmailOr(user),
                 title               |-> body.title,
                 code                |-> body.code,
                 language            |-> body.language,
                 problem_description |-> body.description,
                 status              |-> "open",
                 feedback            |-> None ]
        args == [ op |-> "create_submission", user |-> user.sub ]
    IN
    /\ UNCHANGED << comments, comment_votes, notifications, nextCommentId, inflight >>
    /\ IF outcome \in {"insert_error", "insert_empty"}
       THEN /\ UNCHANGED << submissions, nextSubmissionId >>
            /\ last' = args @@ [status |-> HTTP_500_INTERNAL_SERVER_ERROR, result |-> None]
       ELSE /\ submissions' = Append(submissions, row)
            /\ nextSubmissionId' = nextSubmissionId + 1
            /\ last' = args @@ [status |-> HTTP_201_CREATED, result |-> row]

\* The shape shared by update_submission_status, update_submission_code and
\* update_submission_description: lookup, owner check, update of one column.
OwnerUpdate(op, submission_id, user, lookupFails, patch) ==
    LET rows == SubmissionRows(submission_id)
        args == [ op |-> op, submission_id |-> submission_id, user |-> user.sub ]
    IN
    /\ UNCHANGED << comments, comment_votes, notifications,
                    nextSubmissionId, nextCommentId, inflight >>
    /\ IF SubmissionMissing(submission_id, lookupFails)
       THEN /\ submissions' = submissions
            /\ last' = args @@ [status |-> HTTP_404_NOT_FOUND, result |-> None]
       ELSE IF ~IsOwner(rows[1], user)
       THEN /\ submissions' = submissions
            /\ last' = args @@ [status |-> HTTP_403_FORBIDDEN, result |-> None]
       ELSE /\ submissions' = Update(submissions, [id |-> submission_id], patch)
            /\ last' = args @@ [status |-> HTTP_200_OK, result |-> patch @@ rows[1]]

\* a status update whose patch also blanks the feedback
update_submission_status_blanking_feedback(submission_id, body, user, lookupFails) ==
    OwnerUpdate("update_submission_status", submission_id, user, lookupFails,
                [status |-> body.status, feedback |-> ""])

\* PATCH /submissions/{submission_id}/status
update_submission_status(submission_id, body, user, lookupFails) ==
    OwnerUpdate("update_submission_status", submission_id, user, lookupFails,
                [status |-> body.status])

\* PATCH /submissions/{submission_id}/code
update_submission_code(submission_id, body, user, lookupFails) ==
    OwnerUpdate("update_submission_code", submission_id, user, lookupFails,
                [code |-> body.code])

\* PATCH /submissions/{submission_id}/description
update_submission_description(submission_id, body, user, lookupFails) ==
    OwnerUpdate("update_submission_description", submission_id, user, lookupFails,
                [problem_description |-> body.description])

\* an update_data that carries the feedback of the request whatever it is
DecideOverwritingFeedback(outcome, body) ==
    [status |-> outcome, feedback |-> body.feedback]

\* update_data of approve_submission / reject_submission: the status always,
\* the feedback only when body.feedback is truthy
Decide(outcome, body) ==
    IF body.feedback # None /\ body.feedback # ""
    THEN [status |-> outcome, feedback |-> body.feedback]
    ELSE [status |-> outcome]

\* The shape shared by approve_submission and reject_submission.
Decision(op, outcome, submission_id, body, user, lookupFails) ==
    LET rows == SubmissionRows(submission_id)
        args == [ op |-> op, submission_id |-> submission_id, user |-> user.sub,
                  feedback |-> body.feedback ]
    IN
    /\ UNCHANGED << comments, comment_votes, notifications,
                    nextSubmissionId, nextCommentId, inflight >>
    /\ IF SubmissionMissing(submission_id, lookupFails)
       THEN /\ submissions' = submissions
            /\ last' = args @@ [status |-> HTTP_404_NOT_FOUND, result |-> None]
       ELSE /\ submissions' = Update(submissions, [id |-> submission_id],
                                     Decide(outcome, body))
            /\ last' = args @@ [ status |-> HTTP_200_OK,
                                 result |-> Decide(outcome, body) @@ rows[1],
                                 submission |-> rows[1] ]

\* POST /submissions/{submission_id}/approve
approve_submission(submission_id, body, user, lookupFails) ==
    Decision("approve_submission", "approved", submission_id, body, user, lookupFails)

\* POST /submissions/{submission_id}/reject
reject_submission(submission_id, body, user, lookupFails) ==
    Decision("reject_submission", "rejected", submission_id, body, user, lookupFails)

\* An update or a decision up to its write: _get_submission_or_404, and for
\* the owner's routes _require_owner.  The request goes on to its write with
\* the row it has read and the columns it will set.
SubmissionLookup(req, op, submission_id, user, lookupFails, ownerOnly, patch) ==
    LET rows == SubmissionRows(submission_id)
        args == [ op |-> op, submission_id |-> submission_id, user |-> user.sub ]
    IN
    /\ inflight[req] = Idle
    /\ UNCHANGED << submissions, comments, comment_votes, notifications,
                    nextSubmissionId, nextCommentId >>
    /\ IF SubmissionMissing(submission_id, lookupFails)
       THEN /\ inflight' = inflight
            /\ last' = args @@ [status |-> HTTP_404_NOT_FOUND, result |-> None]
       ELSE IF ownerOnly /\ ~IsOwner(rows[1], user)
       THEN /\ inflight' = inflight
            /\ last' = args @@ [status |-> HTTP_403_FORBIDDEN, result |-> None]
       ELSE /\ inflight' = [inflight EXCEPT ![req] =
                               args @@ [ submission |-> rows[1], patch |-> patch,
                                         ownerOnly |-> ownerOnly ]]
            /\ last' = last

update_submission_status_lookup(req, submission_id, body, user, lookupFails) ==
    SubmissionLookup(req, "update_submission_status", submission_id, user, lookupFails,
                     TRUE, [status |-> body.status])

update_submission_code_lookup(req, submission_id, body, user, lookupFails) ==
    SubmissionLookup(req, "update_submission_code", submission_id, user, lookupFails,
                     TRUE, [code |-> body.code])

update_submission_description_lookup(req, submission_id, body, user, lookupFails) ==
    SubmissionLookup(req, "update_submission_description", submission_id, user,
                     lookupFails, TRUE, [problem_description |-> body.description])

approve_submission_lookup(req, submission_id, body, user, lookupFails) ==
    SubmissionLookup(req, "approve_submission", submission_id, user, lookupFails,
                     FALSE, Decide("approved", body))

reject_submission_lookup(req, submission_id, body, user, lookupFails) ==
    SubmissionLookup(req, "reject_submission", submission_id, user, lookupFails,
                     FALSE, Decide("rejected", body))

\* An update or a decision from its write to its return: row.data[0] when the
\* update matched a row; when it matched none, the owner's routes return the
\* row they read (`submission`), the decisions {**submission, **update_data}.
SubmissionWrite(req) ==
    /\ inflight[req] # Idle
    /\ LET r       == inflight[req]
           after   == Update(submissions, [id |-> r.submission_id], r.patch)
           data    == Select(after, [id |-> r.submission_id])
           args    == [op |-> r.op, submission_id |-> r.submission_id, user |-> r.user]
       IN  /\ submissions' = after
           /\ last' = args @@
                        [ status |-> HTTP_200_OK,
                          result |-> IF data # << >> THEN data[1]
                                     ELSE IF r.ownerOnly THEN r.submission
                                     ELSE r.patch @@ r.submission ]
    /\ inflight' = [inflight EXCEPT ![req] = Idle]
    /\ UNCHANGED << comments, comment_votes, notifications,
                    nextSubmissionId, nextCommentId >>

\* DELETE /submissions/{submission_id}
delete_submission(submission_id, user, lookupFails) ==
    LET rows == SubmissionRows(submission_id)
        args == [ op |-> "delete_submission", submission_id |-> submission_id,
                  user |-> user.sub ]
    IN
    /\ UNCHANGED << comments, comment_votes, notifications,
                    nextSubmissionId, nextCommentId, inflight >>
    /\ IF SubmissionMissing(submission_id, lookupFails)
       THEN /\ submissions' = submissions
            /\ last' = args @@ [status |-> HTTP_404_NOT_FOUND, result |-> None]
       ELSE IF ~IsOwner(rows[1], user)
       THEN /\ submissions' = submissions
            /\ last' = args @@ [status |-> HTTP_403_FORBIDDEN, result |-> None]
       ELSE /\ submissions' = Delete(submissions, [id |-> submission_id])
            /\ last' = args @@ [status |-> HTTP_204_NO_CONTENT, result |-> None]

(* ---------------- submissions.py: search ---------------- *)

\* Searched texts and queries are sequences of one-character strings.

\* str.lower() on one character of the texts of the model
lower_char(ch) ==
    CASE ch = "B" -> "b"
      [] ch = "F" -> "f"
      [] ch = "G" -> "g"
      [] ch = "U" -> "u"
      [] OTHER    -> ch

\* str.lower()
lower(text) == [i \in 1..Len(text) |-> lower_char(text[i])]

\* str.strip(): the text without its leading and trailing blanks
strip(text) ==
    LET inked == { i \in 1..Len(text) : text[i] # " " }
    IN  IF inked = {}
        THEN << >>
        ELSE SubSeq(text, CHOOSE i \in inked : \A j \in inked : i <= j,
                          CHOOSE i \in inked : \A j \in inked : i >= j)

\* str.find(sub): the 0-based offset of the first occurrence, -1 when none
find(text, sub) ==
    LET hits == { i \in 0..(Len(text) - Len(sub)) : SubSeq(text, i + 1, i + Len(sub)) = sub }
    IN  IF hits = {} THEN -1 ELSE CHOOSE i \in hits : \A j \in hits : i <= j

\* text[start:end]
slice(text, start, end) == SubSeq(text, start + 1, end)

\* column.ilike.%q% for a q without "%": "_" stands for any one character,
\* every other character for itself in either case
ilike(text, q) ==
    \E i \in 0..(Len(text) - Len(q)) :
        \A k \in 1..Len(q) : q[k] = "_" \/ lower_char(text[i + k]) = lower_char(q[k])

\* match_snippet of a description or code match: the window around the first
\* occurrence, with an ellipsis (one element "...") on each side that is cut
match_snippet(text, q) ==
    LET idx   == find(lower(text), lower(q))
        start == IF idx - SNIPPET_RADIUS > 0 THEN idx - SNIPPET_RADIUS ELSE 0
        end   == IF idx + Len(q) + SNIPPET_RADIUS < Len(text)
                 THEN idx + Len(q) + SNIPPET_RADIUS ELSE Len(text)
    IN  (IF start > 0 THEN << "..." >> ELSE << >>)
          \o slice(text, start, end)
          \o (IF end < Len(text) THEN << "..." >> ELSE << >>)

\* the columns the search selects
SearchColumns(sub) ==
    [ id |-> sub.id, user_id |-> sub.user_id, user_email |-> sub.user_email,
      title |-> sub.title, language |-> sub.language, status |-> sub.status,
      problem_description |-> sub.problem_description, code |-> sub.code ]

\* an annotation that looks at the description before the title
annotate_description_first(sub, q) ==
    LET q_lower == lower(q)
        has(text) == find(lower(text), q_lower) # -1
    IN  IF has(sub.problem_description)
        THEN sub @@ [ match_field   |-> "description",
                      match_snippet |-> match_snippet(sub.problem_description, q) ]
        ELSE IF has(sub.title)
        THEN sub @@ [match_field |-> "title", match_snippet |-> sub.title]
        ELSE IF has(sub.code)
        THEN sub @@ [ match_field   |-> "code",
                      match_snippet |-> match_snippet(sub.code, q) ]
        ELSE sub @@ [match_field |-> None, match_snippet |-> None]

\* the body of `for sub in results`: match_field and match_snippet of one row
annotate(sub, q) ==
    LET q_lower == lower(q)
        has(text) == find(lower(text), q_lower) # -1
    IN  IF has(sub.title)
        THEN sub @@ [match_field |-> "title", match_snippet |-> sub.title]
        ELSE IF has(sub.problem_description)
        THEN sub @@ [ match_field   |-> "description",
                      match_snippet |-> match_snippet(sub.problem_description, q) ]
        ELSE IF has(sub.code)
        THEN sub @@ [ match_field   |-> "code",
                      match_snippet |-> match_snippet(sub.code, q) ]
        ELSE sub @@ [match_field |-> None, match_snippet |-> None]

\* the rows the select returns: those with a column like %q%, the newest
\* first, SEARCH_LIMIT at most
SearchRows(q) ==
    LET hits   == SelectSeq(submissions,
                            LAMBDA s : \/ ilike(s.title, q)
                                       \/ ilike(s.problem_description, q)
                                       \/ ilike(s.code, q))
        newest == [i \in 1..Len(hits) |-> hits[Len(hits) + 1 - i]]
    IN  SubSeq(newest, 1, IF Len(newest) < SEARCH_LIMIT THEN Len(newest) ELSE SEARCH_LIMIT)

\* POST /submissions/search.  `outcome`: "ok", "select_error" (the select raises).
search_submissions(body, user, outcome) ==
    LET q    == strip(body.q)
        rows == SearchRows(q)
        args == [op |-> "search_submissions", user |-> user.sub, q |-> body.q]
    IN
    /\ UNCHANGED << submissions, comments, comment_votes, notifications,
                    nextSubmissionId, nextCommentId, inflight >>
    /\ IF outcome = "select_error"
       THEN last' = args @@ [status |-> HTTP_500_INTERNAL_SERVER_ERROR, result |-> None]
       ELSE last' = args @@ [ status |-> HTTP_200_OK,
                              result |-> [i \in 1..Len(rows) |->
                                            annotate(SearchColumns(rows[i]), q)] ]

(* ---------------- leaderboard.py ---------------- *)

\* a rank that counts the submissions of every owner
get_my_rank_of_everyone(user) ==
    LET rows           == submissions
        approved_count == Len(SelectSeq(rows, LAMBDA s : s.status = "approved"))
    IN
    /\ last' = [ op |-> "get_my_rank", user |-> user.sub, status |-> HTTP_200_OK,
                 result |-> [ rank              |-> None,
                              user_id           |-> user.sub,
                              email             |-> EmailOr(user),
                              score             |-> approved_count * 10,
                              submissions_count |-> Len(rows),
                              approved_count    |-> approved_count ] ]
    /\ UNCHANGED << submissions, comments, comment_votes, notifications,
                    nextSubmissionId, nextCommentId, inflight >>

\* GET /leaderboard/me
get_my_rank(user) ==
    LET rows           == Select(submissions, [user_id |-> user.sub])
        approved_count == Len(SelectSeq(rows, LAMBDA s : s.status = "approved"))
    IN
    /\ last' = [ op |-> "get_my_rank", user |-> user.sub, status |-> HTTP_200_OK,
                 result |-> [ rank              |-> None,
                              user_id           |-> user.sub,
                              email             |-> EmailOr(user),
                              score             |-> approved_count * 10,
                              submissions_count |-> Len(rows),
                              approved_count    |-> approved_count ] ]
    /\ UNCHANGED << submissions, comments, comment_votes, notifications,
                    nextSubmissionId, nextCommentId, inflight >>

(* ---------------- notifications.py ---------------- *)

\* a mark-all-read whose update is not filtered by recipient
mark_all_read_everyone(user) ==
    /\ notifications' =
          Update(notifications, [is_read |-> FALSE],
                 [is_read |-> TRUE])
    /\ last' = [ op |-> "mark_all_read", user |-> user.sub,
                 status |-> HTTP_200_OK, result |-> [ok |-> TRUE] ]
    /\ UNCHANGED << submissions, comments, comment_votes,
                    nextSubmissionId, nextCommentId, inflight >>

\* PATCH /notifications/read
mark_all_read(user) ==
    /\ notifications' =
          Update(notifications, [user_id |-> user.sub, is_read |-> FALSE],
                 [is_read |-> TRUE])
    /\ last' = [ op |-> "mark_all_read", user |-> user.sub,
                 status |-> HTTP_200_OK, result |-> [ok |-> TRUE] ]
    /\ UNCHANGED << submissions, comments, comment_votes,
                    nextSubmissionId, nextCommentId, inflight >>

(* ---------------- specifications ---------------- *)

Init ==
    /\ submissions = << >>
    /\ comments = << >>
    /\ comment_votes = << >>
    /\ notifications = << >>
    /\ nextSubmissionId = 1
    /\ nextCommentId = 1
    /\ inflight = [r \in Requests |-> Idle]
    /\ last = [op |-> "init", status |-> HTTP_200_OK]

\* Each route, its request drawn from the input sets `in` of a specification.

UpsertVote(in) ==
    \E c \in in.comment_ids, v \in in.votes, u \in in.callers : upsert_vote(c, v, u)

RemoveVote(in) ==
    \E c \in in.comment_ids, u \in in.callers : remove_vote(c, u)

UpsertVoteSelect(in) ==
    \E r \in Requests, c \in in.comment_ids, v \in in.votes, u \in in.callers :
        upsert_vote_select(r, c, v, u)

UpsertVoteWrite ==
    \E r \in Requests : upsert_vote_write(r)

UpsertVoteWriteUnique ==
    \E r \in Requests : upsert_vote_write_unique(r)

AddSubmissionComment(in) ==
    \E s \in in.submission_ids, b \in in.bodies, l \in in.line_numbers, u \in in.callers :
        \E order \in MentionOrders(b) :
            \E o \in in.outcomes \cup {"lookup_error"} :
                \E fault \in IF o = "ok" THEN in.faults \cap Faults(Len(order)) ELSE {NoFault} :
                    add_submission_comment(s, [body |-> b, line_number |-> l], u, o,
                                           order, fault)

AddSubmissionCommentLookup(in) ==
    \E r \in Requests, s \in in.submission_ids, b \in in.bodies, l \in in.line_numbers,
       u \in in.callers, f \in in.lookup_fails :
        add_submission_comment_lookup(r, s, [body |-> b, line_number |-> l], u, f)

AddSubmissionCommentInsert(in) ==
    \E r \in Requests, o \in in.outcomes :
        /\ inflight[r] # Idle
        /\ inflight[r].op = "add_submission_comment"
        /\ \E order \in MentionOrders(inflight[r].body.body) :
              \E fault \in IF o = "ok" THEN in.faults \cap Faults(Len(order)) ELSE {NoFault} :
                  add_submission_comment_insert(r, o, order, fault)

EditSubmissionComment(in) ==
    \E s \in in.submission_ids, c \in CommentIds, b \in in.bodies, u \in in.callers,
       f \in in.lookup_fails :
        edit_submission_comment(s, c, [body |-> b], u, f)

DeleteSubmissionComment(in) ==
    \E s \in in.submission_ids, c \in CommentIds, u \in in.callers, f \in in.lookup_fails :
        delete_submission_comment(s, c, u, f)

CreateComment(in) ==
    \E s \in in.submission_ids, b \in in.bodies, u \in in.callers, o \in in.outcomes :
        create_comment([submission_id |-> s, body |-> b], u, o)

UpdateComment(in) ==
    \E c \in in.comment_ids, b \in in.bodies, u \in in.callers : update_comment(c, [body |-> b], u)

DeleteComment(in) ==
    \E c \in in.comment_ids, u \in in.callers : delete_comment(c, u)

CreateSubmission(in) ==
    \E t \in in.titles, c \in in.codes, d \in in.descriptions, u \in in.callers,
       o \in in.outcomes :
        /\ o = "ok" => nextSubmissionId <= in.max_submissions
        /\ create_submission([title |-> t, code |-> c, language |-> "python",
                              description |-> d], u, o)

UpdateSubmissionStatus(in) ==
    \E s \in in.submission_ids, l \in in.labels, u \in in.callers, f \in in.lookup_fails :
        update_submission_status(s, [status |-> l], u, f)

UpdateSubmissionCode(in) ==
    \E s \in in.submission_ids, c \in in.codes, u \in in.callers, f \in in.lookup_fails :
        update_submission_code(s, [code |-> c], u, f)

UpdateSubmissionDescription(in) ==
    \E s \in in.submission_ids, d \in in.descriptions, u \in in.callers, f \in in.lookup_fails :
        update_submission_description(s, [description |-> d], u, f)

ApproveSubmission(in) ==
    \E s \in in.submission_ids, fb \in in.feedbacks, u \in in.callers, f \in in.lookup_fails :
        approve_submission(s, [feedback |-> fb], u, f)

RejectSubmission(in) ==
    \E s \in in.submission_ids, fb \in in.feedbacks, u \in in.callers, f \in in.lookup_fails :
        reject_submission(s, [feedback |-> fb], u, f)

UpdateSubmissionStatusLookup(in) ==
    \E r \in Requests, s \in in.submission_ids, l \in in.labels, u \in in.callers,
       f \in in.lookup_fails :
        update_submission_status_lookup(r, s, [status |-> l], u, f)

UpdateSubmissionCodeLookup(in) ==
    \E r \in Requests, s \in in.submission_ids, c \in in.codes, u \in in.callers,
       f \in in.lookup_fails :
        update_submission_code_lookup(r, s, [code |-> c], u, f)

UpdateSubmissionDescriptionLookup(in) ==
    \E r \in Requests, s \in in.submission_ids, d \in in.descriptions, u \in in.callers,
       f \in in.lookup_fails :
        update_submission_description_lookup(r, s, [description |-> d], u, f)

ApproveSubmissionLookup(in) ==
    \E r \in Requests, s \in in.submission_ids, fb \in in.feedbacks, u \in in.callers,
       f \in in.lookup_fails :
        approve_submission_lookup(r, s, [feedback |-> fb], u, f)

RejectSubmissionLookup(in) ==
    \E r \in Requests, s \in in.submission_ids, fb \in in.feedbacks, u \in in.callers,
       f \in in.lookup_fails :
        reject_submission_lookup(r, s, [feedback |-> fb], u, f)

SubmissionWriteStep ==
    \E r \in Requests : SubmissionWrite(r)

DeleteSubmission(in) ==
    \E s \in in.submission_ids, u \in in.callers, f \in in.lookup_fails : delete_submission(s, u, f)

SearchSubmissions(in) ==
    \E q \in in.queries, u \in in.callers, o \in {"ok", "select_error"} :
        search_submissions([q |-> q], u, o)

GetMyRank(in) ==
    \E u \in in.callers : get_my_rank(u)

MarkAllRead ==
    \E u \in Callers : mark_all_read(u)

\* The requests of the specifications below: comment bodies are given as their
\* whitespace-delimited tokens, a StatusUpdate carries any non-empty label, a
\* ReviewDecision an absent, empty or written feedback.

\* requests of the comment thread
Inputs ==
    [ callers         |-> Callers,
      max_submissions |-> MaxSubmissions,
      submission_ids |-> SubmissionIds,
      comment_ids    |-> CommentIds,
      votes          |-> {-1, 0, 1, 2},
      bodies         |-> { << "nice" >>, << "@a@x.com", "@a@x.com" >> },
      line_numbers   |-> {None},
      outcomes       |-> {"ok", "insert_error", "insert_empty"},
      faults         |-> Faults(2),
      lookup_fails   |-> {FALSE},
      titles         |-> {"Fix bug"},
      codes          |-> {"x = 1"},
      descriptions   |-> {""},
      labels         |-> {"withdrawn"},
      feedbacks      |-> {None} ]

\* requests of the vote routes: comments of two submissions
InputsVotes ==
    [ Inputs EXCEPT !.submission_ids = {1, 2},
                    !.bodies = { << "nice" >> },
                    !.outcomes = {"ok"} ]

\* requests of every route at once
InputsAll ==
    [ Inputs EXCEPT !.comment_ids = {1},
                    !.votes = {0, 1},
                    !.faults = {NoFault},
                    !.labels = {"open"},
                    !.feedbacks = {None, "lgtm"} ]

\* The comment thread and its mention fan-out, each handler in one step.
Next ==
    \/ CreateSubmission(Inputs)
    \/ DeleteSubmission(Inputs)
    \/ AddSubmissionComment(Inputs)
    \/ EditSubmissionComment(Inputs)
    \/ DeleteSubmissionComment(Inputs)
    \/ CreateComment(Inputs)
    \/ UpdateComment(Inputs)
    \/ DeleteComment(Inputs)
    \/ MarkAllRead

Spec == Init /\ [][Next]_vars

\* Votes on the comments of a store, each handler in one step.
NextVotes ==
    \/ CreateComment(InputsVotes)
    \/ DeleteComment(InputsVotes)
    \/ UpsertVote(InputsVotes)
    \/ RemoveVote(InputsVotes)

SpecVotes == Init /\ [][NextVotes]_vars

\* Concurrent vote requests: upsert_vote interleaves at its store calls.
NextVoteRace ==
    \/ UpsertVoteSelect(InputsVotes)
    \/ UpsertVoteWrite
    \/ RemoveVote(InputsVotes)

SpecVoteRace == Init /\ [][NextVoteRace]_vars

\* Concurrent vote requests over a store that keeps one row per pair.
NextVoteUnique ==
    \/ UpsertVoteSelect(InputsVotes)
    \/ UpsertVoteWriteUnique
    \/ RemoveVote(InputsVotes)

SpecVoteUnique == Init /\ [][NextVoteUnique]_vars

\* requests of an add that races with the delete of its submission
InputsAddRace ==
    [ Inputs EXCEPT !.bodies = { << "nice" >> },
                    !.outcomes = {"ok"},
                    !.faults = {NoFault} ]

\* Concurrent adds and deletes: add_submission_comment interleaves between
\* its lookup and its insert.
NextAddRace ==
    \/ CreateSubmission(InputsAddRace)
    \/ AddSubmissionCommentLookup(InputsAddRace)
    \/ AddSubmissionCommentInsert(InputsAddRace)
    \/ DeleteSubmission(InputsAddRace)

SpecAddRace == Init /\ [][NextAddRace]_vars

\* requests of updates and decisions that race with a delete: each sets its
\* column to a value the created submission does not have
InputsWriteRace ==
    [ Inputs EXCEPT !.codes = {"x = 2"},
                    !.descriptions = {"sorts a list"},
                    !.feedbacks = {"lgtm"},
                    !.outcomes = {"ok"} ]

\* Concurrent updates, decisions and deletes: the updates and decisions
\* interleave between their lookup and their write.
NextWriteRace ==
    \/ CreateSubmission(InputsWriteRace)
    \/ UpdateSubmissionStatusLookup(InputsWriteRace)
    \/ UpdateSubmissionCodeLookup(InputsWriteRace)
    \/ UpdateSubmissionDescriptionLookup(InputsWriteRace)
    \/ ApproveSubmissionLookup(InputsWriteRace)
    \/ RejectSubmissionLookup(InputsWriteRace)
    \/ SubmissionWriteStep
    \/ DeleteSubmission(InputsWriteRace)

SpecWriteRace == Init /\ [][NextWriteRace]_vars

\* Every route of the review workflow, each handler in one step.
NextAll ==
    \/ CreateSubmission(InputsAll)
    \/ UpdateSubmissionStatus(InputsAll)
    \/ UpdateSubmissionCode(InputsAll)
    \/ UpdateSubmissionDescription(InputsAll)
    \/ ApproveSubmission(InputsAll)
    \/ RejectSubmission(InputsAll)
    \/ DeleteSubmission(InputsAll)
    \/ AddSubmissionComment(InputsAll)
    \/ EditSubmissionComment(InputsAll)
    \/ DeleteSubmissionComment(InputsAll)
    \/ CreateComment(InputsAll)
    \/ UpdateComment(InputsAll)
    \/ DeleteComment(InputsAll)
    \/ UpsertVote(InputsAll)
    \/ RemoveVote(InputsAll)
    \/ MarkAllRead

SpecAll == Init /\ [][NextAll]_vars

\* requests of the submission lifecycle: two submissions, an owner update that
\* changes each column, a label outside the three of a review, and feedback
\* absent or written
InputsLifecycle ==
    [ Inputs EXCEPT !.max_submissions = MaxLifecycleSubmissions,
                    !.submission_ids = 1..MaxLifecycleSubmissions,
                    !.codes = {"x = 1", "x = 2"},
                    !.descriptions = {"", "sorts a list"},
                    !.feedbacks = {None, "lgtm"},
                    !.outcomes = {"ok", "insert_empty"} ]

\* requests of the review decisions: feedback absent, empty or written, on
\* submissions of any status
InputsDecide ==
    [ Inputs EXCEPT !.max_submissions = MaxLifecycleSubmissions,
                    !.submission_ids = 1..MaxLifecycleSubmissions,
                    !.feedbacks = {None, "", "lgtm", "redo"},
                    !.outcomes = {"ok"} ]

\* The routes that create, change, decide and delete a submission.
NextLifecycle ==
    \/ CreateSubmission(InputsLifecycle)
    \/ UpdateSubmissionStatus(InputsLifecycle)
    \/ UpdateSubmissionCode(InputsLifecycle)
    \/ UpdateSubmissionDescription(InputsLifecycle)
    \/ ApproveSubmission(InputsLifecycle)
    \/ RejectSubmission(InputsLifecycle)
    \/ DeleteSubmission(InputsLifecycle)
    \/ GetMyRank(InputsLifecycle)

SpecLifecycle == Init /\ [][NextLifecycle]_vars

\* Decisions by any caller on submissions whose owner may relabel them.
NextDecide ==
    \/ CreateSubmission(InputsDecide)
    \/ UpdateSubmissionStatus(InputsDecide)
    \/ ApproveSubmission(InputsDecide)
    \/ RejectSubmission(InputsDecide)

SpecDecide == Init /\ [][NextDecide]_vars

\* requests whose existence lookup may fail in the store
InputsLookupFaults ==
    [ InputsAll EXCEPT !.lookup_fails = {FALSE, TRUE},
                       !.bodies = { << "nice" >> },
                       !.outcomes = {"ok"} ]

\* The routes that look a submission or a comment up before they act, over a
\* store whose lookup may raise.
NextLookupFaults ==
    \/ CreateSubmission(InputsLookupFaults)
    \/ UpdateSubmissionStatus(InputsLookupFaults)
    \/ UpdateSubmissionCode(InputsLookupFaults)
    \/ UpdateSubmissionDescription(InputsLookupFaults)
    \/ ApproveSubmission(InputsLookupFaults)
    \/ RejectSubmission(InputsLookupFaults)
    \/ DeleteSubmission(InputsLookupFaults)
    \/ AddSubmissionComment(InputsLookupFaults)
    \/ EditSubmissionComment(InputsLookupFaults)
    \/ DeleteSubmissionComment(InputsLookupFaults)

SpecLookupFaults == Init /\ [][NextLookupFaults]_vars

\* filler of a long text
Padding == [i \in 1..MaxPadding |-> "x"]

\* requests of the search: titles, descriptions and codes that hold "bug" in
\* either case, at their start or beyond the reach of a snippet, and queries
\* with a trailing blank, in capitals, with a "_", and one that nothing holds
InputsSearch ==
    [ Inputs EXCEPT
        !.callers = { [sub |-> "u1", email |-> "a@x.com"] },
        !.max_submissions = MaxLifecycleSubmissions,
        !.outcomes = {"ok"},
        !.titles = { << "S", "o", "r", "t" >>,
                     << "F", "i", "x", " ", "b", "u", "g" >>,
                     Padding \o << "B", "u", "g" >> \o Padding },
        !.descriptions = { << >>,
                           << "b", "u", "g", " ", "f", "i", "x", "e", "s" >>,
                           Padding \o << "t", "h", "e", " ", "B", "U", "G" >> \o Padding },
        !.codes = { << "x", " ", "=", " ", "1" >>,
                    Padding \o << "d", "e", "b", "u", "g", "(", ")" >> } ]

SearchQueries ==
    { << "b", "u", "g" >>, << "B", "U", "G", " " >>, << "b", "_", "g" >>, << "=", " ", "1" >>, << "z", "z", "z" >> }

\* Searches over the submissions the callers created.
NextSearch ==
    \/ CreateSubmission(InputsSearch)
    \/ SearchSubmissions(InputsSearch @@ [queries |-> SearchQueries])

SpecSearch == Init /\ [][NextSearch]_vars

\* requests of the mention fan-out: bodies that mention the addresses of both
\* callers and an address nobody carries
InputsMentions ==
    [ Inputs EXCEPT !.bodies = { << "@a@x.com", "@b@x.com" >>,
                                 << "hi", "@c@x.com", "@a@x.com" >> },
                    !.outcomes = {"ok"} ]

\* Comment creation by both entry points, and the notifications it leaves.
NextMentions ==
    \/ CreateSubmission(InputsMentions)
    \/ AddSubmissionComment(InputsMentions)
    \/ CreateComment(InputsMentions)
    \/ EditSubmissionComment(InputsMentions)
    \/ DeleteComment(InputsMentions)
    \/ DeleteSubmission(InputsMentions)
    \/ MarkAllRead

SpecMentions == Init /\ [][NextMentions]_vars

\* the callers, and one whose token carries no email
CallersAndNameless == Callers \cup { [sub |-> "u3", email |-> None] }

\* requests of a fan-out that fails midway: a body that mentions the addresses
\* of two callers, written by them or by a third
InputsFanout ==
    [ Inputs EXCEPT !.callers = CallersAndNameless,
                    !.bodies = { << "@a@x.com", "@b@x.com" >> },
                    !.outcomes = {"ok"} ]

\* Comment creation whose fan-out may meet a store failure at any call.
NextFanout ==
    \/ CreateSubmission(InputsFanout)
    \/ CreateComment(InputsFanout)
    \/ AddSubmissionComment(InputsFanout)

SpecFanout == Init /\ [][NextFanout]_vars

(* ---------------- claims ---------------- *)

\* the voters of the model
Voters == { u.sub : u \in Callers }

\* C1: whatever the interleaving of concurrent upsert_vote calls of one voter
\* on one comment, comment_votes never holds more than one row of that
\* (comment, voter) pair.
C1_OneRowPerPair ==
    \A c \in CommentIds, u \in Voters : Len(VoteRows(c, u)) <= 1

\* the own vote of voter u in the tally of comment c
UserVote(c, u) ==
    FirstVoteOf(SelectSeq(comment_votes, LAMBDA v : v.comment_id = c), u)

\* C2: applied one after another, every successful vote request of voter u on
\* comment c makes u's own vote in the tally of c the value just applied (0
\* for a removal) and leaves the own vote of every other (comment, voter) pair
\* as it was; and in the state it leaves, the tally of every comment counts as
\* upvotes exactly the voters whose own vote is +1, as downvotes exactly those
\* whose own vote is -1, and net is their difference.  So the tally reflects
\* the last value applied per voter and nothing earlier.
C2_TallyReflectsLastValue ==
    [][ /\ \A c \in CommentIds, u \in Voters :
              UserVote(c, u)' =
                  IF /\ last'.op \in {"upsert_vote", "remove_vote"}
                     /\ last'.status = HTTP_200_OK
                     /\ last'.comment_id = c
                     /\ last'.user = u
                  THEN (IF last'.op = "remove_vote" THEN 0 ELSE last'.vote)
                  ELSE UserVote(c, u)
        /\ \A c \in CommentIds, caller \in Callers :
              LET t == get_comment_votes(c, caller)'
              IN  /\ t.upvotes = Cardinality({ u \in Voters : UserVote(c, u)' = 1 })
                  /\ t.downvotes = Cardinality({ u \in Voters : UserVote(c, u)' = -1 })
                  /\ t.net = t.upvotes - t.downvotes
                  /\ t.user_vote = UserVote(c, caller.sub)'
      ]_vars

\* C2 witness: a voter has just applied -1 on a comment on which another voter
\* holds +1, and the tally shows one of each.
C2_Witness ==
    /\ last.op = "upsert_vote"
    /\ last.status = HTTP_200_OK
    /\ last.vote = -1
    /\ \E caller \in Callers :
          /\ caller.sub = last.user
          /\ get_comment_votes(last.comment_id, caller) =
                 [upvotes |-> 1, downvotes |-> 1, net |-> 0, user_vote |-> -1]

\* the rows of comment c that count as `value` and were not cast by voter u
OthersCount(c, u, value) ==
    Len(SelectSeq(comment_votes, LAMBDA v : v.comment_id = c /\ v.user_id # u /\ v.vote = value))

\* C3: upsert_vote with vote 0 removes the rows of the (comment, voter) pair
\* and nothing else (so it changes nothing when the pair has no row), answers
\* {vote: 0, net: 0}, and leaves a tally in which the voter's own vote is 0 and
\* the upvotes and downvotes of every other voter are as before.
C3_ZeroRemovesOwnVoteOnly ==
    [][ \A c \in CommentIds, u \in Voters :
          ( /\ last'.op = "upsert_vote"
            /\ last'.vote = 0
            /\ last'.comment_id = c
            /\ last'.user = u ) =>
              /\ last'.status = HTTP_200_OK
              /\ last'.result = [vote |-> 0, net |-> 0]
              /\ comment_votes' =
                    SelectSeq(comment_votes,
                              LAMBDA v : ~(v.comment_id = c /\ v.user_id = u))
              /\ (VoteRows(c, u) = << >> => comment_votes' = comment_votes)
              /\ UserVote(c, u)' = 0
              /\ \A c2 \in CommentIds :
                    /\ OthersCount(c2, u, 1)' = OthersCount(c2, u, 1)
                    /\ OthersCount(c2, u, -1)' = OthersCount(c2, u, -1)
                    /\ \A u2 \in Voters \ {u} : UserVote(c2, u2)' = UserVote(c2, u2)
      ]_vars

\* C3 witness: a voter has just sent vote 0 on a comment that keeps the vote
\* of another voter.
C3_Witness ==
    /\ last.op = "upsert_vote"
    /\ last.vote = 0
    /\ VoteRows(last.comment_id, last.user) = << >>
    /\ \E u2 \in Voters \ {last.user} : VoteRows(last.comment_id, u2) # << >>

\* C4: every stored vote row has value +1 or -1, and an upsert_vote whose
\* value is none of -1, 0, +1 is answered 400 and leaves comment_votes as it
\* was.
C4_StoredVotesAreUpOrDown ==
    [][ /\ \A i \in 1..Len(comment_votes') : comment_votes'[i].vote \in {1, -1}
        /\ (last'.op = "upsert_vote" /\ last'.vote \notin {-1, 0, 1}) =>
              /\ last'.status = HTTP_400_BAD_REQUEST
              /\ comment_votes' = comment_votes
      ]_vars

\* C4 witness: a vote of 2 has just been refused on a store that holds votes.
C4_Witness ==
    /\ last.op = "upsert_vote"
    /\ last.vote = 2
    /\ last.status = HTTP_400_BAD_REQUEST
    /\ comment_votes # << >>

\* the submission ids a request can name
AnySubmissionIds == SubmissionIds \cup InputsVotes.submission_ids

\* C5: on every store, the batch tally of a submission is keyed by exactly the
\* comments of that submission, voted on or not, and maps each of them to the
\* tally the single-comment route gives for it.
C5_BatchEqualsSingleTallies ==
    \A s \in AnySubmissionIds, caller \in Callers :
        LET batch == get_submission_comment_votes(s, caller)
        IN  /\ DOMAIN batch =
                  { comments[i].id :
                      i \in { j \in 1..Len(comments) : comments[j].submission_id = s } }
            /\ \A cid \in DOMAIN batch : batch[cid] = get_comment_votes(cid, caller)

\* C5 witness: the caller has voted on a comment of a submission while a
\* comment of another submission carries a vote too, which the batch tally of
\* the first must leave out.
C5_Witness ==
    \E s \in AnySubmissionIds, caller \in Callers :
        LET batch == get_submission_comment_votes(s, caller)
        IN  /\ \E c1 \in DOMAIN batch : batch[c1].user_vote # 0
            /\ \E i \in 1..Len(comments) :
                  /\ comments[i].submission_id # s
                  /\ \E j \in 1..Len(comment_votes) :
                        comment_votes[j].comment_id = comments[i].id

\* C6: a comment creation, by the route of a submission or by POST /comments,
\* that names a submission that does not exist is answered 404 and writes no
\* comment.
C6_CreationChecksSubmission ==
    [][ ( /\ last'.op \in {"add_submission_comment", "create_comment"}
          /\ ~\E i \in 1..Len(submissions) : submissions[i].id = last'.submission_id ) =>
            /\ last'.status = HTTP_404_NOT_FOUND
            /\ comments' = comments
      ]_vars

\* the routes that edit or delete a comment
FlatCommentMutations == {"update_comment", "delete_comment"}

ScopedCommentMutations == {"edit_submission_comment", "delete_submission_comment"}

\* the comment rows a request names: by id, and for the routes of a submission
\* by id and submission
NamedRows(request) ==
    SelectSeq(comments,
              LAMBDA c : /\ c.id = request.comment_id
                         /\ (request.op \in ScopedCommentMutations
                               => c.submission_id = request.submission_id))

C8_FanoutFailureNeverFailsAdd ==
    [][ ( /\ last'.op = "add_submission_comment"
          /\ Len(comments') = Len(comments) + 1 ) =>
            /\ last'.status = HTTP_201_CREATED
            /\ last'.result = comments'[Len(comments')]
            /\ comments' = Append(comments, last'.result)
      ]_vars

\* C8 witness: an add has just answered 201 although a store call of its
\* fan-out raised, and its comment is stored.
C8_Witness ==
    /\ last.op = "add_submission_comment"
    /\ last.status = HTTP_201_CREATED
    /\ last.raised
    /\ \E i \in 1..Len(comments) : comments[i] = last.result

\* C9: the notifications table grows only in an add that answers 201 and has
\* appended its comment; an add that fails, and every other route, leaves the
\* table as it was, mark_all_read apart, which adds no row.
C9_NotificationsOnlyAfterCommentInsert ==
    [][ /\ Len(notifications') # Len(notifications) =>
              /\ last'.op = "add_submission_comment"
              /\ last'.status = HTTP_201_CREATED
              /\ comments' = Append(comments, last'.result)
        /\ (last'.op = "add_submission_comment" /\ last'.status # HTTP_201_CREATED) =>
              notifications' = notifications
        /\ last'.op \notin {"add_submission_comment", "mark_all_read"} =>
              notifications' = notifications
      ]_vars

\* C9 witness: an add has just answered 201 and a notification naming its
\* author is stored.
C9_Witness ==
    /\ last.op = "add_submission_comment"
    /\ last.status = HTTP_201_CREATED
    /\ \E i \in 1..Len(notifications) :
          notifications[i].message[1] = last.result.user_email

\* the rows an add appended to notifications
NewNotifications == SubSeq(notifications', Len(notifications) + 1, Len(notifications'))

\* C10: one add creates at most one notification for the identity that owns a
\* mentioned address, however often the body mentions the address.
C10_OneNotificationPerAddress ==
    [][ last'.op = "add_submission_comment" =>
          \A u \in Voters : Len(SelectSeq(NewNotifications, LAMBDA n : n.user_id = u)) <= 1
      ]_vars

\* C10 witness: an add whose body mentions a@x.com twice has just completed
\* without a store failure, and the owner of the address has one notification.
C10_Witness ==
    /\ last.op = "add_submission_comment"
    /\ last.status = HTTP_201_CREATED
    /\ ~last.raised
    /\ last.result.body = << "@a@x.com", "@a@x.com" >>
    /\ Len(notifications) = 1
    /\ notifications[1].user_id = "u1"
    /\ notifications[1].message[1] = last.result.user_email

\* C11: an add whose body mentions the author's own email appends no
\* notification whose recipient is the author, whatever else the body mentions
\* and whatever rows carry the author's email.
C11_NoSelfNotification ==
    [][ ( /\ last'.op = "add_submission_comment"
          /\ last'.status = HTTP_201_CREATED
          /\ last'.result.user_email \in MentionedEmails(last'.result.body) ) =>
            \A i \in 1..Len(NewNotifications) : NewNotifications[i].user_id # last'.user
      ]_vars

\* C11 witness: an author who owns a submission has just added a comment that
\* mentions the author's own email and another caller's; the other caller was
\* notified and no notification is addressed to the author.
C11_Witness ==
    /\ last.op = "add_submission_comment"
    /\ last.status = HTTP_201_CREATED
    /\ ~last.raised
    /\ last.result.user_email \in MentionedEmails(last.result.body)
    /\ \E i \in 1..Len(submissions) : submissions[i].user_id = last.user
    /\ Len(notifications) = 1
    /\ notifications[1].user_id # last.user
    /\ notifications[1].message[1] = last.result.user_email

\* the identities the store knows an address by: the user ids of the comments
\* carrying it, and when there are none those of the submissions carrying it
Carriers(email) ==
    LET ofComments    == { comments[i].user_id :
                             i \in { j \in 1..Len(comments) : comments[j].user_email = email } }
        ofSubmissions == { submissions[i].user_id :
                             i \in { j \in 1..Len(submissions) :
                                       submissions[j].user_email = email } }
    IN  IF ofComments # {} THEN ofComments ELSE ofSubmissions

\* the addresses a created comment mentions, its author's apart, that the
\* store resolves
ResolvedMentions(comment) ==
    { e \in MentionedEmails(comment.body) \ {comment.user_email} : Carriers(e) # {} }

\* C12: a successful add without store failure appends one notification for
\* each distinct mentioned address, the author's apart, that a comment or a
\* submission carries, and none for the others; each is of type "mention",
\* unread, names the author's email, and goes to the user id of a comment
\* carrying the address, or of a submission when no comment carries it.
C12_OneMentionPerResolvedAddress ==
    [][ ( /\ last'.op = "add_submission_comment"
          /\ last'.status = HTTP_201_CREATED
          /\ ~last'.raised ) =>
            /\ SubSeq(notifications', 1, Len(notifications)) = notifications
            /\ Len(NewNotifications) = Cardinality(ResolvedMentions(last'.result))
            /\ \A e \in ResolvedMentions(last'.result) :
                  \E i \in 1..Len(NewNotifications), r \in Carriers(e) :
                      NewNotifications[i] =
                          [ user_id |-> r,
                            message |-> << last'.result.user_email,
                                           " mentioned you in a review comment" >>,
                            type    |-> "mention",
                            is_read |-> FALSE ]
      ]_vars

\* C12 witness: u1 owns a submission and wrote no comment; u2 has just added a
\* comment mentioning a@x.com and an address nobody carries, and the one
\* notification stored is the mention addressed to u1.
C12_Witness ==
    /\ last.op = "add_submission_comment"
    /\ last.status = HTTP_201_CREATED
    /\ ~last.raised
    /\ last.user = "u2"
    /\ MentionedEmails(last.result.body) = {"a@x.com", "c@x.com"}
    /\ \E i \in 1..Len(submissions) : submissions[i].user_id = "u1"
    /\ \A i \in 1..Len(comments) : comments[i].user_id # "u1"
    /\ notifications = << [ user_id |-> "u1",
                            message |-> << "b@x.com", " mentioned you in a review comment" >>,
                            type    |-> "mention",
                            is_read |-> FALSE ] >>

\* C13: every successful comment creation, by the route of a submission or by
\* POST /comments, that meets no store failure appends a mention notification
\* for each resolved address its body mentions.
C13_EveryCreationNotifies ==
    [][ ( /\ last'.op \in {"add_submission_comment", "create_comment"}
          /\ last'.status = HTTP_201_CREATED
          /\ last'.op = "add_submission_comment" => ~last'.raised ) =>
            \A e \in ResolvedMentions(last'.result) :
                \E i \in 1..Len(NewNotifications) :
                    /\ NewNotifications[i].user_id \in Carriers(e)
                    /\ NewNotifications[i].type = "mention"
      ]_vars

\* C14: a notification is appended unread; mark_all_read sets is_read on the
\* notifications of its caller, changes no other notification and adds or
\* removes none; every other step leaves the stored notifications as they were.
C14_ReadFlagOnlyByRecipient ==
    [][ /\ Len(notifications') >= Len(notifications)
        /\ \A i \in 1..Len(NewNotifications) : NewNotifications[i].is_read = FALSE
        /\ IF last'.op = "mark_all_read"
           THEN /\ Len(notifications') = Len(notifications)
                /\ \A i \in 1..Len(notifications) :
                      notifications'[i] =
                          IF notifications[i].user_id = last'.user
                          THEN [notifications[i] EXCEPT !.is_read = TRUE]
                          ELSE notifications[i]
           ELSE \A i \in 1..Len(notifications) : notifications'[i] = notifications[i]
      ]_vars

\* C14 witness: a caller has just marked all read; a notification of the
\* caller is read and one of another recipient is still unread.
C14_Witness ==
    /\ last.op = "mark_all_read"
    /\ \E i \in 1..Len(notifications) :
          notifications[i].user_id = last.user /\ notifications[i].is_read
    /\ \E i \in 1..Len(notifications) :
          notifications[i].user_id # last.user /\ ~notifications[i].is_read

\* the routes _require_owner guards
OwnerRoutes ==
    { "update_submission_status", "update_submission_code",
      "update_submission_description", "delete_submission" }

\* the positions of submissions' holding the submission stored at position i
KeptAs(i) == { j \in 1..Len(submissions') : submissions'[j].id = submissions[i].id }

\* C15: a submission's code or description changes, or its row is removed,
\* only in a successful update or delete of that submission by its owner, and
\* a status update changes a submission only when its caller owns it; an
\* owner-guarded route that names no submission is answered 404, one called by
\* another caller 403, and both leave the submissions table as it was.
C15_OnlyOwnerChangesSubmission ==
    [][ /\ \A i \in 1..Len(submissions) :
              /\ ( \/ KeptAs(i) = {}
                   \/ \E j \in KeptAs(i) :
                         \/ submissions'[j].code # submissions[i].code
                         \/ submissions'[j].problem_description #
                               submissions[i].problem_description ) =>
                     /\ last'.op \in OwnerRoutes \ {"update_submission_status"}
                     /\ last'.status \in {HTTP_200_OK, HTTP_204_NO_CONTENT}
                     /\ last'.submission_id = submissions[i].id
                     /\ last'.user = submissions[i].user_id
              /\ ( /\ last'.op = "update_submission_status"
                   /\ \E j \in KeptAs(i) : submissions'[j] # submissions[i] ) =>
                     /\ last'.submission_id = submissions[i].id
                     /\ last'.user = submissions[i].user_id
        /\ last'.op \in OwnerRoutes =>
              LET rows == SelectSeq(submissions, LAMBDA s : s.id = last'.submission_id)
              IN  /\ rows = << >> =>
                        /\ last'.status = HTTP_404_NOT_FOUND
                        /\ submissions' = submissions
                  /\ (rows # << >> /\ rows[1].user_id # last'.user) =>
                        /\ last'.status = HTTP_403_FORBIDDEN
                        /\ submissions' = submissions
      ]_vars

\* C15 witness: a caller who does not own a stored submission has just been
\* refused an update of its code or its deletion.
C15_Witness ==
    /\ last.op \in {"update_submission_code", "delete_submission"}
    /\ last.status = HTTP_403_FORBIDDEN
    /\ \E i \in 1..Len(submissions) :
          submissions[i].id = last.submission_id /\ submissions[i].user_id # last.user

\* C16: the status of every stored submission is open, approved or rejected.
C16_StatusIsOneOfThree ==
    \A i \in 1..Len(submissions) : submissions[i].status \in {"open", "approved", "rejected"}

\* feedback a decision writes: body.feedback is truthy
Written(feedback) == feedback \notin {None, ""}

\* C17: an approve that directly follows a reject of the same submission leaves
\* the row an approve with the same feedback alone would have made of the row
\* the reject found.
C17_ApproveAfterRejectLeavesNoTrace ==
    [][ ( /\ last.op = "reject_submission"
          /\ last.status = HTTP_200_OK
          /\ last'.op = "approve_submission"
          /\ last'.status = HTTP_200_OK
          /\ last'.submission_id = last.submission_id ) =>
            LET alone == [ last.submission EXCEPT
                             !.status = "approved",
                             !.feedback = IF Written(last'.feedback)
                                          THEN last'.feedback ELSE @ ]
            IN  /\ last'.result = alone
                /\ \E j \in 1..Len(submissions') : submissions'[j] = alone
      ]_vars

\* C18: a decision on a stored submission answers 200 for every caller and
\* from every status, sets the status to its outcome, sets the feedback to a
\* written feedback and keeps it when the feedback is absent or empty, and
\* changes no other row; a decision that names no submission is answered 404
\* and changes nothing.
C18_DecideOverwritesForAnyCaller ==
    [][ last'.op \in {"approve_submission", "reject_submission"} =>
          LET outcome == IF last'.op = "approve_submission" THEN "approved" ELSE "rejected"
              decided(s) == [ s EXCEPT !.status = outcome,
                                       !.feedback = IF Written(last'.feedback)
                                                    THEN last'.feedback ELSE @ ]
          IN  IF \E i \in 1..Len(submissions) : submissions[i].id = last'.submission_id
              THEN /\ last'.status = HTTP_200_OK
                   /\ Len(submissions') = Len(submissions)
                   /\ \A i \in 1..Len(submissions) :
                         submissions'[i] = IF submissions[i].id = last'.submission_id
                                           THEN decided(submissions[i])
                                           ELSE submissions[i]
                   /\ \E i \in 1..Len(submissions') : submissions'[i] = last'.result
              ELSE /\ last'.status = HTTP_404_NOT_FOUND
                   /\ submissions' = submissions
      ]_vars

\* C18 witness: a caller who does not own it has just rejected, with an empty
\* feedback, a submission its owner had labelled "withdrawn" and that carried
\* feedback; it is rejected and carries the same feedback.
C18_Witness ==
    /\ last.op = "reject_submission"
    /\ last.status = HTTP_200_OK
    /\ last.feedback = ""
    /\ last.user # last.submission.user_id
    /\ last.submission.status = "withdrawn"
    /\ last.submission.feedback = "lgtm"
    /\ last.result.status = "rejected"
    /\ last.result.feedback = "lgtm"

\* C19: the feedback of a stored submission changes only in a successful
\* approve or reject of that submission.
C19_FeedbackOnlyByDecision ==
    [][ \A i \in 1..Len(submissions) :
            (\E j \in KeptAs(i) : submissions'[j].feedback # submissions[i].feedback) =>
                /\ last'.op \in {"approve_submission", "reject_submission"}
                /\ last'.status = HTTP_200_OK
                /\ last'.submission_id = submissions[i].id
      ]_vars

\* C19 witness: the owner has just updated the status of a submission that
\* carries written feedback, and the feedback is still there.
C19_Witness ==
    /\ last.op = "update_submission_status"
    /\ last.status = HTTP_200_OK
    /\ last.result.feedback = "lgtm"
    /\ \E i \in 1..Len(submissions) : submissions[i] = last.result

\* C20: a create answered 201 returns a row of status open owned by the
\* caller, and leaves the submissions stored before it as they were.
C20_CreateStartsOpen ==
    [][ (last'.op = "create_submission" /\ last'.status = HTTP_201_CREATED) =>
          /\ last'.result.status = "open"
          /\ last'.result.user_id = last'.user
          /\ submissions' = Append(submissions, last'.result)
      ]_vars

\* C20 witness: a caller who already owns a submission that is no longer open
\* has just created a second one.
C20_Witness ==
    /\ last.op = "create_submission"
    /\ last.status = HTTP_201_CREATED
    /\ Len(submissions) = 2
    /\ submissions[1].user_id = last.user
    /\ submissions[1].status # "open"
    /\ submissions[2] = last.result

\* the stored submissions a user owns, and those of them that are approved
OwnedBy(u) == { i \in 1..Len(submissions) : submissions[i].user_id = u }

ApprovedOf(u) == { i \in OwnedBy(u) : submissions[i].status = "approved" }

\* C21: the response of get_my_rank counts the stored submissions of the
\* caller and the approved ones among them, scores ten per approved submission
\* and leaves the rank unset.
C21_MyStatsCountsOwnSubmissions ==
    last.op = "get_my_rank" =>
        /\ last.status = HTTP_200_OK
        /\ last.result.submissions_count = Cardinality(OwnedBy(last.user))
        /\ last.result.approved_count = Cardinality(ApprovedOf(last.user))
        /\ last.result.score = 10 * Cardinality(ApprovedOf(last.user))
        /\ last.result.rank = None

\* C21 witness: two approved submissions are stored and a caller who owns one
\* of them has just read a score of 10.
C21_Witness ==
    /\ last.op = "get_my_rank"
    /\ Cardinality(OwnedBy(last.user)) = 1
    /\ Len(submissions) = 2
    /\ \A i \in 1..Len(submissions) : submissions[i].status = "approved"
    /\ last.result.score = 10

\* a text holds a query when the query occurs in it, letter case set aside
Holds(text, query) ==
    \E i \in 0..(Len(text) - Len(query)) :
        \A k \in 1..Len(query) : lower_char(text[i + k]) = lower_char(query[k])

\* the first of title, description and code of a returned row that holds a query
FirstHolding(row, query) ==
    IF Holds(row.title, query) THEN "title"
    ELSE IF Holds(row.problem_description, query) THEN "description"
    ELSE IF Holds(row.code, query) THEN "code"
    ELSE None

\* C22, as stated: every row a search returns reports as its matched field the
\* first of title, description and code that holds the query as it was sent.
C22_MatchedFieldIsFirstHoldingQuery ==
    (last.op = "search_submissions" /\ last.status = HTTP_200_OK) =>
        \A k \in 1..Len(last.result) :
            last.result[k].match_field = FirstHolding(last.result[k], last.q)

\* C22, amended: every row a search returns reports as its matched field the
\* first of title, description and code that holds the query without its
\* leading and trailing blanks, and no field when none of the three holds it;
\* a row whose title and description both hold it is matched on its title.
C22_MatchedFieldIsFirstHoldingStrippedQuery ==
    (last.op = "search_submissions" /\ last.status = HTTP_200_OK) =>
        \A k \in 1..Len(last.result) :
            LET row == last.result[k]
                q   == strip(last.q)
            IN  /\ row.match_field = FirstHolding(row, q)
                /\ (Holds(row.title, q) /\ Holds(row.problem_description, q))
                      => row.match_field = "title"

\* C22 witness: a search whose query ends in a blank has returned a row whose
\* title and description both hold the stripped query, matched on its title,
\* and a row matched on another field.
C22_Witness ==
    /\ last.op = "search_submissions"
    /\ last.status = HTTP_200_OK
    /\ last.q # strip(last.q)
    /\ \E k \in 1..Len(last.result) :
          /\ Holds(last.result[k].title, strip(last.q))
          /\ Holds(last.result[k].problem_description, strip(last.q))
          /\ last.result[k].match_field = "title"
    /\ \E k \in 1..Len(last.result) : last.result[k].match_field \in {"description", "code"}

\* the text of the field a returned row reports as matched
MatchedText(row) ==
    CASE row.match_field = "title"       -> row.title
      [] row.match_field = "description" -> row.problem_description
      [] row.match_field = "code"        -> row.code

\* the offsets at which a query occurs in a text, letter case set aside
Occurrences(text, query) ==
    { i \in 0..(Len(text) - Len(query)) :
        \A k \in 1..Len(query) : lower_char(text[i + k]) = lower_char(query[k]) }

\* the part of a text from SNIPPET_RADIUS characters before the first
\* occurrence of a query to SNIPPET_RADIUS characters after its end
Window(text, query) ==
    LET first == CHOOSE i \in Occurrences(text, query) :
                     \A j \in Occurrences(text, query) : i <= j
        from  == IF first > SNIPPET_RADIUS THEN first - SNIPPET_RADIUS ELSE 0
        to    == IF first + Len(query) + SNIPPET_RADIUS < Len(text)
                 THEN first + Len(query) + SNIPPET_RADIUS ELSE Len(text)
    IN  SubSeq(text, from + 1, to)

\* C23: whichever field a returned row is matched on, its snippet is the part
\* of that field's text from 50 characters before the first occurrence of the
\* query to 50 characters after its end, clipped to the text.
C23_SnippetIsWindowOfMatchedField ==
    (last.op = "search_submissions" /\ last.status = HTTP_200_OK) =>
        \A k \in 1..Len(last.result) :
            last.result[k].match_field # None =>
                last.result[k].match_snippet
                    = Window(MatchedText(last.result[k]), strip(last.q))

\* the routes that look a submission up with _get_submission_or_404, and those
\* that look a comment of a submission up
SubmissionLookupRoutes ==
    OwnerRoutes \cup {"approve_submission", "reject_submission", "add_submission_comment"}

CommentLookupRoutes == {"edit_submission_comment", "delete_submission_comment"}

\* C24: a failure of the store during the existence lookup is told apart from
\* an absent entity: a route answers "not found" only when the submission, or
\* the comment of the submission, it looked up is not in the store; whatever
\* it answers when the lookup fails, it leaves the store as it was.
C24_NotFoundOnlyWhenAbsent ==
    [][ /\ (last'.op \in SubmissionLookupRoutes /\ last'.status = HTTP_404_NOT_FOUND)
            => SubmissionRows(last'.submission_id) = << >>
        /\ (last'.op \in CommentLookupRoutes /\ last'.status = HTTP_404_NOT_FOUND)
            => ScopedCommentRows(last'.submission_id, last'.comment_id) = << >>
      ]_vars

\* C25: over a store that keeps one row per (comment, voter), an upsert whose
\* insert loses to a concurrent insert of the same voter is retried inside the
\* handler: the request returns with success and the voter's single row holds
\* the value of the call.
C25_ConflictIsRetriedNotSurfaced ==
    [][ \A req \in Requests :
          ( /\ inflight[req] # Idle
            /\ inflight'[req] = Idle
            /\ ~inflight[req].existing
            /\ VoteRows(inflight[req].comment_id, inflight[req].user) # << >> )
          => /\ last'.status = HTTP_200_OK
             /\ Select(comment_votes', [ comment_id |-> inflight[req].comment_id,
                                         user_id    |-> inflight[req].user ])
                  = << [ comment_id |-> inflight[req].comment_id,
                         user_id    |-> inflight[req].user,
                         vote       |-> inflight[req].vote ] >>
      ]_vars

\* C26: however an add interleaves with the delete of its submission, no
\* comment is inserted once the row of the submission is gone: at the step
\* that stores a comment, the submission it names is in the store.
C26_NoCommentInsertedAfterSubmissionDeleted ==
    [][ Len(comments') > Len(comments)
          => SubmissionRows(comments'[Len(comments')].submission_id) # << >>
      ]_vars

\* the rows of a (comment, voter) pair after the step
VoteRowsAfter(c, u) ==
    Select(comment_votes', [comment_id |-> c, user_id |-> u])

\* C27: votes of different (comment, voter) pairs do not interfere, however
\* the requests interleave.  A step that changes the votes is the write or the
\* removal of one request and leaves the rows of every pair but that request's
\* as they were; and a write whose pair was not touched since its select
\* leaves the pair with one row holding the value of the call, whatever the
\* requests of other pairs did in between.
C27_OtherPairsUntouched ==
    [][ /\ comment_votes' # comment_votes =>
              \A c \in CommentIds, u \in Voters :
                  (c # last'.comment_id \/ u # last'.user)
                      => VoteRowsAfter(c, u) = VoteRows(c, u)
        /\ \A req \in Requests :
              ( /\ inflight[req] # Idle
                /\ inflight'[req] = Idle
                /\ Len(VoteRows(inflight[req].comment_id, inflight[req].user)) <= 1
                /\ inflight[req].existing
                     = (VoteRows(inflight[req].comment_id, inflight[req].user) # << >>) )
              => VoteRowsAfter(inflight[req].comment_id, inflight[req].user)
                   = << [ comment_id |-> inflight[req].comment_id,
                          user_id    |-> inflight[req].user,
                          vote       |-> inflight[req].vote ] >>
      ]_vars

\* C27 witness: two voters hold opposite votes on one comment, the second
\* vote just written, while a further upsert of the first voter that has seen
\* its row is on its way.
C27_Witness ==
    /\ last.op = "upsert_vote"
    /\ last.status = HTTP_200_OK
    /\ Len(comment_votes) = 2
    /\ comment_votes[1].comment_id = comment_votes[2].comment_id
    /\ comment_votes[1].user_id # comment_votes[2].user_id
    /\ comment_votes[1].vote # comment_votes[2].vote
    /\ comment_votes[2].user_id = last.user
    /\ \E req \in Requests :
          /\ inflight[req] # Idle
          /\ inflight[req].user = comment_votes[1].user_id
          /\ inflight[req].comment_id = comment_votes[1].comment_id
          /\ inflight[req].existing

\* the resolved addresses an add visited before the store call that raised
VisitedBeforeFault(response) ==
    { response.mentions[i] : i \in 1..(response.fault.at - 1) }
        \cap ResolvedMentions(response.result)

\* C28: the fan-out is not all-or-nothing.  When a store call raises at one of
\* the mentioned addresses, the add still answers 201 with its stored comment,
\* the notifications of the table stay, and the rows it has appended are one
\* mention for each resolved address visited before the failing one: none for
\* the failing address, none for those after it, none twice.
C28_FanoutKeepsEarlierNotifications ==
    [][ ( /\ last'.op = "add_submission_comment"
          /\ Len(comments') = Len(comments) + 1
          /\ last'.raised ) =>
            /\ last'.status = HTTP_201_CREATED
            /\ last'.result = comments'[Len(comments')]
            /\ SubSeq(notifications', 1, Len(notifications)) = notifications
            /\ Len(NewNotifications) = Cardinality(VisitedBeforeFault(last'))
            /\ \A e \in VisitedBeforeFault(last') :
                  \E i \in 1..Len(NewNotifications), r \in Carriers(e) :
                      NewNotifications[i] = MentionRow(r, last'.result.user_email)
            /\ \A j \in last'.fault.at..Len(last'.mentions) :
                  \A i \in 1..Len(NewNotifications) :
                      NewNotifications[i].user_id \notin Carriers(last'.mentions[j])
      ]_vars

\* C28 witness: a caller without email has just added a comment mentioning the
\* addresses of two callers the store knows; the insert for the second address
\* visited raised, and the one notification stored is the mention of the first.
C28_Witness ==
    /\ last.op = "add_submission_comment"
    /\ last.status = HTTP_201_CREATED
    /\ last.raised
    /\ last.user = "u3"
    /\ last.fault = [at |-> 2, call |-> "insert"]
    /\ Len(last.mentions) = 2
    /\ \E i \in 1..Len(comments) : comments[i] = last.result
    /\ \E r \in {"u1", "u2"} :
          notifications = << MentionRow(r, "") >>

\* C29: however an update or a decision interleaves with the delete of its
\* submission, a request that reports success returns a row the store holds
\* right after its write; a write that matched no row does not report success.
C29_SuccessMeansStored ==
    [][ \A req \in Requests :
          ( /\ inflight[req] # Idle
            /\ inflight'[req] = Idle
            /\ last'.status = HTTP_200_OK )
          => \E j \in 1..Len(submissions') : submissions'[j] = last'.result
      ]_vars

\* C30: every stored vote names a comment that existed when the vote was
\* written: a step that adds a row to comment_votes, or changes the value of
\* one, does so for a comment that is in the comments table.
C30_VotesNameExistingComments ==
    [][ Len(comment_votes') >= Len(comment_votes) =>
          \A i \in 1..Len(comment_votes') :
              (i > Len(comment_votes) \/ comment_votes'[i] # comment_votes[i])
                => \E j \in 1..Len(comments) : comments[j].id = comment_votes'[i].comment_id
      ]_vars

====
